---- MODULE Spec2Model ----
(***************************************************************************)
(* Model of the battery event log of harbour-batterylog                    *)
(* (src/qml/energylog.js): the energy_log table, the in-memory cache of    *)
(* the last written sample, the ingestion and retention operations and the *)
(* read queries.                                                           *)
(*                                                                         *)
(* Time is counted in whole ticks; a day is TicksPerDay ticks and the      *)
(* standby timeout is a number of ticks.  A Date bound to a statement is   *)
(* stored as local wall-clock time (ToSql); a stored time read back is     *)
(* parsed as UTC (FromSql) and shifted by the timezone offset only where   *)
(* the code does so (convertItemToEntry, getLatestEvents).                 *)
(*                                                                         *)
(* call records the latest operation: op, the sample passed, the branch    *)
(* of addOrUpdateEntry taken, ret ("time": currentTime returned, "zero": 0 *)
(* returned, "throw": a statement raised and the exception left the        *)
(* function), fault (the statement at which the storage layer raised on    *)
(* its own, 0: none), collided (a statement hit the primary key), same     *)
(* (the sample equalled the cached one), zero (the UPDATE affected no      *)
(* row), since (calls of addOrUpdateEntry since the process started,       *)
(* counted up to 2).                                                       *)
(***************************************************************************)
EXTENDS Integers, Sequences, FiniteSets, TLC

\* ---------------------------------------------------------------- bounds
MaxTime == 7
TimeoutSeconds == 2
MaxDays == 2
TicksPerDay == 1
MaxEnergy == 2

TzOffsets == {-1, 0, 1}
Energies == 1..MaxEnergy
IngestEvents == {"", "Start"}

\* ----------------------------------------------------------------- state
VARIABLES
    energy_log,                 \* the persisted table: a set of rows
    lastDefined,                \* FALSE while the cache variables are undefined
    lastTime, lastEnergy, lastCharging, lastActive, lastEvent,
    timeoutIntervalInSeconds,
    now,                        \* Date.now() of the latest operation
    tzOffset,                   \* Date.getTimezoneOffset(), in ticks
    call,                       \* the latest operation, its inputs and outcome
    entries                     \* the result of the latest read query

cacheVars == <<lastDefined, lastTime, lastEnergy, lastCharging, lastActive, lastEvent>>
vars == <<energy_log, lastDefined, lastTime, lastEnergy, lastCharging, lastActive,
          lastEvent, timeoutIntervalInSeconds, now, tzOffset, call, entries>>

\* ------------------------------------------------------------ conversions
\* a Date bound as a statement parameter is written as local wall-clock time
ToSql(d) == d - tzOffset

\* new Date(item.time): the stored wall-clock text is parsed as UTC
FromSql(s) == s

Row(time, energy, charging, active, event) ==
    [time |-> time, energy |-> energy, charging |-> charging,
     active |-> active, event |-> event]

\* ------------------------------------------------------------- statements
\* the outcome of one executeSql inside its own transaction:
\* threw = the statement raised (constraint violation or storage fault) and
\* the transaction was rolled back; collided = it hit the primary key
\* INSERT INTO energy_log VALUES (?,?,?,?,?) with time as PRIMARY KEY
Insert(tbl, row, fault) ==
    IF fault
    THEN [threw |-> TRUE, collided |-> FALSE, tbl |-> tbl]
    ELSE IF \E r \in tbl : r.time = row.time
         THEN [threw |-> TRUE, collided |-> TRUE, tbl |-> tbl]
         ELSE [threw |-> FALSE, collided |-> FALSE, tbl |-> tbl \cup {row}]

\* addEntry: returns true whenever the statement did not raise
addEntry(tbl, time, energy, charging, active, event, fault) ==
    Insert(tbl, Row(ToSql(time), energy, charging, active, event), fault)

\* variant: the WHERE clause is given the new time instead of the old one
UpdateTimeWrongWhere(tbl, newTime, oldTime, fault) ==
    LET hit == {r \in tbl : r.time = ToSql(newTime)}
    IN
    IF fault
    THEN [threw |-> TRUE, collided |-> FALSE, rowsAffected |-> 0, tbl |-> tbl]
    ELSE [threw |-> FALSE, collided |-> FALSE, rowsAffected |-> Cardinality(hit), tbl |-> tbl]

\* variant: WHERE time <= ?, which also moves every older row
UpdateTimeOlderToo(tbl, newTime, oldTime, fault) ==
    LET hit == {r \in tbl : r.time <= ToSql(oldTime)}
        moved == {[r EXCEPT !.time = ToSql(newTime)] : r \in hit}
    IN
    IF fault
    THEN [threw |-> TRUE, collided |-> FALSE, rowsAffected |-> 0, tbl |-> tbl]
    ELSE [threw |-> FALSE, collided |-> FALSE,
          rowsAffected |-> Cardinality(hit), tbl |-> (tbl \ hit) \cup moved]

\* UPDATE energy_log SET time = ? WHERE time = ?
UpdateTime(tbl, newTime, oldTime, fault) ==
    LET hit == {r \in tbl : r.time = ToSql(oldTime)}
        moved == {[r EXCEPT !.time = ToSql(newTime)] : r \in hit}
    IN
    IF fault
    THEN [threw |-> TRUE, collided |-> FALSE, rowsAffected |-> 0, tbl |-> tbl]
    ELSE IF hit # {} /\ \E r \in tbl \ hit : r.time = ToSql(newTime)
         THEN [threw |-> TRUE, collided |-> TRUE, rowsAffected |-> 0, tbl |-> tbl]
         ELSE [threw |-> FALSE, collided |-> FALSE,
               rowsAffected |-> Cardinality(hit), tbl |-> (tbl \ hit) \cup moved]

\* ------------------------------------------------------------------ init
NoCall ==
    [op |-> "init", energy |-> 0, charging |-> FALSE, active |-> FALSE, event |-> "",
     branch |-> "none", ret |-> "none", fault |-> 0, collided |-> FALSE,
     same |-> FALSE, zero |-> FALSE, since |-> 0, maximumDays |-> 0]

NoEntries ==
    [query |-> "none", dayCount |-> 0, dayOffset |-> 0, rows |-> <<>>, power |-> 0,
     sum |-> 0, duration |-> 0]

\* variant: the cache survives the restart
CacheKept == UNCHANGED cacheVars

\* var lastTime, lastEnergy, lastCharging, lastActive, lastEvent: all undefined
CacheUndefined ==
    /\ lastDefined' = FALSE
    /\ lastTime' = 0
    /\ lastEnergy' = 0
    /\ lastCharging' = FALSE
    /\ lastActive' = FALSE
    /\ lastEvent' = ""

Init ==
    /\ energy_log = {}
    /\ lastDefined = FALSE
    /\ lastTime = 0
    /\ lastEnergy = 0
    /\ lastCharging = FALSE
    /\ lastActive = FALSE
    /\ lastEvent = ""
    /\ timeoutIntervalInSeconds = TimeoutSeconds
    /\ now = 0
    /\ tzOffset \in TzOffsets
    /\ call = NoCall
    /\ entries = NoEntries

\* time passes between two operations: exactly the timeout, or one tick more
Tick ==
    /\ \E dt \in {timeoutIntervalInSeconds, timeoutIntervalInSeconds + 1} : now' = now + dt
    /\ now' <= MaxTime

\* ------------------------------------------------------------- ingestion
\* variant: the gap test does not exempt the "Start" event
MissedStandbyAnyEvent(currentTime, active, event) ==
    /\ active
    /\ lastDefined
    /\ currentTime - lastTime > timeoutIntervalInSeconds

\* the gap test of addOrUpdateEntry; (currentTime - undefined) is NaN and
\* NaN > timeoutIntervalInSeconds is false
MissedStandby(currentTime, active, event) ==
    /\ active
    /\ event # "Start"
    /\ lastDefined
    /\ currentTime - lastTime > timeoutIntervalInSeconds

\* the merge test of addOrUpdateEntry; undefined === value is false
SameAsLast(energy, charging, active, event) ==
    /\ lastDefined
    /\ lastEnergy = energy
    /\ lastCharging = charging
    /\ lastActive = active
    /\ lastEvent = event

\* "store values for next call"
StoreLast(currentTime, energy, charging, active, event) ==
    /\ lastDefined' = TRUE
    /\ lastTime' = currentTime
    /\ lastEnergy' = energy
    /\ lastCharging' = charging
    /\ lastActive' = active
    /\ lastEvent' = event

Called(op, energy, charging, active, event, branch, ret, fault, collided) ==
    [op |-> op, energy |-> energy, charging |-> charging, active |-> active,
     event |-> event, branch |-> branch, ret |-> ret, fault |-> fault,
     collided |-> collided, same |-> SameAsLast(energy, charging, active, event),
     zero |-> FALSE, since |-> IF call.since < 2 THEN call.since + 1 ELSE 2,
     maximumDays |-> 0]

\* addOrUpdateEntry(energy, charging, active, event) at Date.now() = now';
\* fault = the statement of this call at which the storage layer raises
\* (0: none).  ret: "time" = currentTime returned, "zero" = 0 returned,
\* "throw" = the exception of a statement left the function
addOrUpdateEntry(energy, charging, active, event, fault) ==
    /\ Tick
    /\ LET currentTime == now' IN
       IF MissedStandby(currentTime, active, event)
       THEN LET missedTime == lastTime + timeoutIntervalInSeconds
                missed == addEntry(energy_log, missedTime, lastEnergy, lastCharging,
                                   FALSE, "", fault = 1)
                added == addEntry(missed.tbl, currentTime, energy, charging, active,
                                  event, fault = 2)
            IN
            IF missed.threw
            THEN /\ energy_log' = missed.tbl
                 /\ UNCHANGED cacheVars
                 /\ call' = Called("record", energy, charging, active, event, "gap",
                                   "throw", IF fault = 1 THEN 1 ELSE 0, missed.collided)
            ELSE IF added.threw
            THEN /\ energy_log' = added.tbl
                 /\ UNCHANGED cacheVars
                 /\ call' = Called("record", energy, charging, active, event, "gap",
                                   "throw", IF fault = 2 THEN 2 ELSE 0, added.collided)
            ELSE /\ energy_log' = added.tbl
                 /\ StoreLast(currentTime, energy, charging, active, event)
                 /\ call' = Called("record", energy, charging, active, event, "gap",
                                   "time", 0, FALSE)
       ELSE IF SameAsLast(energy, charging, active, event)
       THEN LET updated == UpdateTime(energy_log, currentTime, lastTime, fault = 1) IN
            IF updated.threw
            THEN /\ energy_log' = updated.tbl
                 /\ UNCHANGED cacheVars
                 /\ call' = Called("record", energy, charging, active, event, "merge",
                                   "throw", IF fault = 1 THEN 1 ELSE 0, updated.collided)
            ELSE \* "return 0" on rowsAffected === 0 only leaves the callback
                 /\ energy_log' = updated.tbl
                 /\ lastTime' = currentTime
                 /\ UNCHANGED <<lastDefined, lastEnergy, lastCharging, lastActive, lastEvent>>
                 /\ call' = [Called("record", energy, charging, active, event, "merge",
                                    "zero", 0, FALSE)
                              EXCEPT !.zero = (updated.rowsAffected = 0)]
       ELSE LET added == addEntry(energy_log, currentTime, energy, charging, active,
                                  event, fault = 1)
            IN
            IF added.threw
            THEN /\ energy_log' = added.tbl
                 /\ UNCHANGED cacheVars
                 /\ call' = Called("record", energy, charging, active, event, "insert",
                                   "throw", IF fault = 1 THEN 1 ELSE 0, added.collided)
            ELSE /\ energy_log' = added.tbl
                 /\ StoreLast(currentTime, energy, charging, active, event)
                 /\ call' = Called("record", energy, charging, active, event, "insert",
                                   "time", 0, FALSE)
    /\ UNCHANGED <<timeoutIntervalInSeconds, tzOffset, entries>>

\* ------------------------------------------------------------- retention
\* variant: DELETE ... WHERE time <= cleanupTime
cleanupInclusive(maximumDays) ==
    /\ Tick
    /\ LET cleanupTime == now' - maximumDays * TicksPerDay IN
       energy_log' = {r \in energy_log : ~(r.time <= ToSql(cleanupTime))}
    /\ call' = [NoCall EXCEPT !.op = "cleanup", !.maximumDays = maximumDays,
                              !.since = call.since]
    /\ UNCHANGED <<cacheVars, timeoutIntervalInSeconds, tzOffset, entries>>

\* cleanup(maximumDays): DELETE FROM energy_log WHERE time < cleanupTime
cleanup(maximumDays) ==
    /\ Tick
    /\ LET cleanupTime == now' - maximumDays * TicksPerDay IN
       energy_log' = {r \in energy_log : ~(r.time < ToSql(cleanupTime))}
    /\ call' = [NoCall EXCEPT !.op = "cleanup", !.maximumDays = maximumDays,
                              !.since = call.since]
    /\ UNCHANGED <<cacheVars, timeoutIntervalInSeconds, tzOffset, entries>>

\* reset(): DELETE FROM energy_log
reset ==
    /\ Tick
    /\ energy_log' = {}
    /\ call' = [NoCall EXCEPT !.op = "reset", !.since = call.since]
    /\ UNCHANGED <<cacheVars, timeoutIntervalInSeconds, tzOffset, entries>>

\* the process restarts: the script's variables are undefined again, then
\* init(newTimeoutIntervalInSeconds) runs; the table persists
Restart ==
    /\ Tick
    /\ CacheUndefined
    /\ timeoutIntervalInSeconds' = TimeoutSeconds
    /\ call' = [NoCall EXCEPT !.op = "restart"]
    /\ UNCHANGED <<energy_log, tzOffset, entries>>

RecordSample ==
    \E energy \in Energies, charging \in BOOLEAN, active \in BOOLEAN,
       event \in IngestEvents, fault \in 0..2 :
        addOrUpdateEntry(energy, charging, active, event, fault)

Prune == \E maximumDays \in 0..MaxDays : cleanup(maximumDays)

Next ==
    \/ RecordSample
    \/ Prune
    \/ reset
    \/ Restart

Spec == Init /\ [][Next]_vars

\* --------------------------------------------------------------- queries
\* the rows of S, whose times lie in lo..hi, by ascending time (rows of
\* equal time, which the primary key excludes, in any order)
RECURSIVE OrderWithin(_, _, _)
OrderWithin(S, lo, hi) ==
    IF S = {} THEN <<>>
    ELSE IF lo = hi
    THEN LET first == CHOOSE r \in S : TRUE
         IN <<first>> \o OrderWithin(S \ {first}, lo, hi)
    ELSE LET mid == (lo + hi) \div 2
         IN OrderWithin({r \in S : r.time <= mid}, lo, mid)
            \o OrderWithin({r \in S : r.time > mid}, mid + 1, hi)

\* ORDER BY time ASC
OrderByTime(S) ==
    IF S = {} THEN <<>>
    ELSE LET times == {r.time : r \in S}
             lo == CHOOSE t \in times : \A u \in times : t <= u
             hi == CHOOSE t \in times : \A u \in times : t >= u
         IN OrderWithin(S, lo, hi)

\* LIMIT n
Limit(rows, n) == IF Len(rows) <= n THEN rows ELSE SubSeq(rows, 1, n)

EventLimit == 400
PowerLimit == 1000

\* a JavaScript number that is a ratio of integers: num / den, den > 0
Ratio(num, den) ==
    IF den < 0 THEN [num |-> 0 - num, den |-> 0 - den] ELSE [num |-> num, den |-> den]

\* e0 * (1 - s) + e1 * s for s = p / q and integer e0; e1 is a ratio
Blend(e0, e1, p, q) ==
    Ratio(e0 * (q - p) * e1.den + e1.num * p, q * e1.den)

\* convertItemToEntry(item, currentTime)
convertItemToEntry(item) ==
    [time |-> FromSql(item.time) + tzOffset, energy |-> Ratio(item.energy, 1),
     charging |-> item.charging, active |-> item.active, event |-> item.event]

\* variant: the end border is added after a "Stop" entry too
EndBorderIgnoringStop(fetched, endTime) ==
    LET endEntry == fetched[Len(fetched)]
        after == OrderByTime({r \in energy_log : r.time > ToSql(endEntry.time)})
        entry == convertItemToEntry(after[1])
    IN
    IF Len(after) >= 1
    THEN <<[entry EXCEPT
              !.energy = Blend(endEntry.energy.num, entry.energy,
                               endTime - endEntry.time, entry.time - endEntry.time),
              !.time = endTime]>>
    ELSE <<>>

\* variant: the end border keeps the time of the row after the window
EndBorderUnclamped(fetched, endTime) ==
    LET endEntry == fetched[Len(fetched)]
        after == OrderByTime({r \in energy_log : r.time > ToSql(endEntry.time)})
        entry == convertItemToEntry(after[1])
    IN
    IF endEntry.event # "Stop" /\ Len(after) >= 1
    THEN <<[entry EXCEPT
              !.energy = Blend(endEntry.energy.num, entry.energy,
                               endTime - endEntry.time, entry.time - endEntry.time)]>>
    ELSE <<>>

\* "add event AFTER end": the first row after the last fetched one, moved
\* to endTime with a blended energy
EndBorder(fetched, endTime) ==
    LET endEntry == fetched[Len(fetched)]
        after == OrderByTime({r \in energy_log : r.time > ToSql(endEntry.time)})
        entry == convertItemToEntry(after[1])
    IN
    IF endEntry.event # "Stop" /\ Len(after) >= 1
    THEN <<[entry EXCEPT
              !.energy = Blend(endEntry.energy.num, entry.energy,
                               endTime - endEntry.time, entry.time - endEntry.time),
              !.time = endTime]>>
    ELSE <<>>

\* variant: the test reads startEvent !== "Start"
StartBorderUnlessStart(fetched, startTime) ==
    LET startEntry == fetched[1]
        before == OrderByTime({r \in energy_log : r.time < ToSql(startEntry.time)})
        entry == convertItemToEntry(before[Len(before)])
    IN
    IF startEntry.event # "Start" /\ Len(before) >= 1
    THEN <<[entry EXCEPT
              !.energy = Blend(startEntry.energy.num, entry.energy,
                               startTime - startEntry.time, entry.time - startEntry.time),
              !.time = startTime]>>
    ELSE <<>>

\* "add event BEFORE start": startEntry !== "Start" compares the entry
\* itself with a string and is always true
StartBorder(fetched, startTime) ==
    LET startEntry == fetched[1]
        before == OrderByTime({r \in energy_log : r.time < ToSql(startEntry.time)})
        entry == convertItemToEntry(before[Len(before)])
    IN
    IF Len(before) >= 1
    THEN <<[entry EXCEPT
              !.energy = Blend(startEntry.energy.num, entry.energy,
                               startTime - startEntry.time, entry.time - startEntry.time),
              !.time = startTime]>>
    ELSE <<>>

\* variant: time >= ? AND time <= ?
InWindowInclusive(startTime, endTime) ==
    {r \in energy_log : r.time >= ToSql(startTime) /\ r.time <= ToSql(endTime)}

\* the rows of getLatestEntries' first SELECT: time > ? AND time < ?
InWindow(startTime, endTime) ==
    {r \in energy_log : r.time > ToSql(startTime) /\ r.time < ToSql(endTime)}

\* variant: the borders are added as soon as entries.length > 0
getLatestEntriesAnyRow(dayCount, dayOffset, currentTime) ==
    LET startTime == currentTime - (dayCount + dayOffset) * TicksPerDay
        endTime == currentTime - dayOffset * TicksPerDay
        selected == OrderByTime(InWindow(startTime, endTime))
        fetched == [i \in 1..Len(selected) |-> convertItemToEntry(selected[i])]
    IN
    IF Len(fetched) > 0
    THEN StartBorder(fetched, startTime) \o fetched \o EndBorder(fetched, endTime)
    ELSE fetched

\* getLatestEntries(dayCount, dayOffset) at Date.now() = currentTime
getLatestEntries(dayCount, dayOffset, currentTime) ==
    LET startTime == currentTime - (dayCount + dayOffset) * TicksPerDay
        endTime == currentTime - dayOffset * TicksPerDay
        selected == OrderByTime(InWindow(startTime, endTime))
        fetched == [i \in 1..Len(selected) |-> convertItemToEntry(selected[i])]
    IN
    IF Len(fetched) > 1
    THEN StartBorder(fetched, startTime) \o fetched \o EndBorder(fetched, endTime)
    ELSE fetched

\* the loop of getLatestEvents: a row is pushed when its event differs from
\* the event pushed last (previous = "" stands for the undefined lastEvent:
\* no selected row has an empty event)
\* EventLoop runs the iterations idx = lo..hi (the first half, then the
\* second half from where the first one left lastEvent) and gives the
\* entries pushed and the lastEvent they leave
RECURSIVE EventLoop(_, _, _, _)
EventLoop(rows, lo, hi, previous) ==
    IF lo > hi THEN [pushed |-> <<>>, lastEvent |-> previous]
    ELSE IF lo = hi
    THEN LET item == rows[lo]
             entry == [time |-> FromSql(item.time) + tzOffset, energy |-> item.energy,
                       charging |-> item.charging, event |-> item.event]
         IN
         IF item.event # previous
         THEN [pushed |-> <<entry>>, lastEvent |-> item.event]
         ELSE [pushed |-> <<>>, lastEvent |-> previous]
    ELSE LET mid == (lo + hi) \div 2
             head == EventLoop(rows, lo, mid, previous)
             rest == EventLoop(rows, mid + 1, hi, head.lastEvent)
         IN [pushed |-> head.pushed \o rest.pushed, lastEvent |-> rest.lastEvent]

CollapseEvents(rows, previous) == EventLoop(rows, 1, Len(rows), previous).pushed

\* variant: the SELECT does not exclude 'Stop'
EventRowsWithStop(startTime) ==
    {r \in energy_log : r.time > ToSql(startTime) /\ r.event # ""}

\* the rows of getLatestEvents' SELECT
EventRows(startTime) ==
    {r \in energy_log : r.time > ToSql(startTime) /\ r.event # "" /\ r.event # "Stop"}

\* getLatestEvents(dayCount)
getLatestEvents(dayCount, currentTime) ==
    LET startTime == currentTime - dayCount * TicksPerDay
    IN CollapseEvents(Limit(OrderByTime(EventRows(startTime)), EventLimit), "")

\* variant: the SELECT does not filter on charging
PowerRowsAnyCharging(startTime) ==
    {r \in energy_log : r.time > ToSql(startTime)}

\* the rows of getAveragePower's SELECT
PowerRows(startTime) ==
    {r \in energy_log : r.time > ToSql(startTime) /\ r.charging = FALSE}

\* variant: the test reads energy < previousEnergy
RECURSIVE AccumulateStrict(_, _, _)
AccumulateStrict(rows, idx, acc) ==
    IF idx > Len(rows) THEN acc
    ELSE LET previous == rows[idx - 1]
             item == rows[idx]
         IN
         IF item.energy < previous.energy /\ previous.event # "Stop"
         THEN AccumulateStrict(rows, idx + 1,
                         [sum |-> acc.sum + (previous.energy - item.energy),
                          duration |-> acc.duration
                                       + (FromSql(item.time) - FromSql(previous.time))])
         ELSE AccumulateStrict(rows, idx + 1, acc)

\* variant: previousTime is advanced before the elapsed time is added
RECURSIVE AccumulateLateTime(_, _, _)
AccumulateLateTime(rows, idx, acc) ==
    IF idx > Len(rows) THEN acc
    ELSE LET previous == rows[idx - 1]
             item == rows[idx]
         IN
         IF item.energy <= previous.energy /\ previous.event # "Stop"
         THEN AccumulateLateTime(rows, idx + 1,
                         [sum |-> acc.sum + (previous.energy - item.energy),
                          duration |-> acc.duration
                                       + (FromSql(item.time) - FromSql(item.time))])
         ELSE AccumulateLateTime(rows, idx + 1, acc)

\* one pass of the loop of getAveragePower over rows[idx..]
RECURSIVE Accumulate(_, _, _)
Accumulate(rows, idx, acc) ==
    IF idx > Len(rows) THEN acc
    ELSE LET previous == rows[idx - 1]
             item == rows[idx]
         IN
         IF item.energy <= previous.energy /\ previous.event # "Stop"
         THEN Accumulate(rows, idx + 1,
                         [sum |-> acc.sum + (previous.energy - item.energy),
                          duration |-> acc.duration
                                       + (FromSql(item.time) - FromSql(previous.time))])
         ELSE Accumulate(rows, idx + 1, acc)

\* the value Math.round gives for a division by zero
NotFinite == -1

\* Math.round(n / d) for n >= 0: the nearest integer, halves rounded up
Round(n, d) == IF d = 0 THEN NotFinite ELSE (2 * n + d) \div (2 * d)

\* getAveragePower(dayCount)
getAveragePower(dayCount, currentTime) ==
    LET startTime == currentTime - dayCount * TicksPerDay
        rows == Limit(OrderByTime(PowerRows(startTime)), PowerLimit)
        acc == Accumulate(rows, 2, [sum |-> 0, duration |-> 0])
    IN
    IF Len(rows) > 1 /\ acc.sum > 0
    THEN [sum |-> acc.sum, duration |-> acc.duration,
          power |-> Round(acc.sum * 3600, acc.duration)]
    ELSE [sum |-> IF Len(rows) > 1 THEN acc.sum ELSE 0,
          duration |-> IF Len(rows) > 1 THEN acc.duration ELSE 0, power |-> 0]

\* ---------------------------------------------- queries over any log
MaxQTime == 4
MaxDayCount == 5
MaxDayOffset == 2

\* the samples a stored row may carry
SampleKinds ==
    { <<3, FALSE, TRUE, "">>, <<2, FALSE, FALSE, "Stop">>, <<2, TRUE, TRUE, "Charging">>,
      <<3, TRUE, FALSE, "Full">>, <<1, FALSE, TRUE, "Start">> }

\* the table after the samples of `log` were recorded at times 1..MaxQTime
\* (none = no sample at that time), each by a freshly started process
Stored(log, tz) ==
    {[time |-> t - tz, energy |-> log[t][1], charging |-> log[t][2],
      active |-> log[t][3], event |-> log[t][4]] :
        t \in {u \in 1..MaxQTime : log[u] # <<>>}}

InitQ ==
    /\ tzOffset \in TzOffsets
    /\ \E log \in [1..MaxQTime -> SampleKinds \cup {<<>>}] :
          energy_log = Stored(log, tzOffset)
    /\ lastDefined = FALSE
    /\ lastTime = 0
    /\ lastEnergy = 0
    /\ lastCharging = FALSE
    /\ lastActive = FALSE
    /\ lastEvent = ""
    /\ timeoutIntervalInSeconds = TimeoutSeconds
    /\ now = MaxQTime + 1
    /\ call = NoCall
    /\ entries = NoEntries

Asked(query, dayCount, dayOffset, rows, power) ==
    [query |-> query, dayCount |-> dayCount, dayOffset |-> dayOffset,
     rows |-> rows, power |-> power, sum |-> 0, duration |-> 0]

QueryEntries ==
    /\ entries.query = "none"
    /\ \E dayCount \in 0..MaxDayCount, dayOffset \in 0..MaxDayOffset :
          entries' = Asked("entries", dayCount, dayOffset,
                           getLatestEntries(dayCount, dayOffset, now), 0)
    /\ UNCHANGED <<energy_log, cacheVars, timeoutIntervalInSeconds, now, tzOffset, call>>

QueryEvents ==
    /\ entries.query = "none"
    /\ \E dayCount \in 0..MaxDayCount :
          entries' = Asked("events", dayCount, 0, getLatestEvents(dayCount, now), 0)
    /\ UNCHANGED <<energy_log, cacheVars, timeoutIntervalInSeconds, now, tzOffset, call>>

QueryPower ==
    /\ entries.query = "none"
    /\ \E dayCount \in 0..MaxDayCount :
          LET result == getAveragePower(dayCount, now) IN
          entries' = [Asked("power", dayCount, 0, <<>>, result.power)
                      EXCEPT !.sum = result.sum, !.duration = result.duration]
    /\ UNCHANGED <<energy_log, cacheVars, timeoutIntervalInSeconds, now, tzOffset, call>>

NextQ ==
    \/ QueryEntries
    \/ QueryEvents
    \/ QueryPower

SpecQ == InitQ /\ [][NextQ]_vars

\* ------------------------------------------ the event page on a long log
\* the log holds between EventLimit - MaxShort and EventLimit + MaxOver rows
MaxShort == 2
MaxOver == 2

DaysShown == 10

LongLogs == (EventLimit - MaxShort)..(EventLimit + MaxOver)
NewestEvents == {"Full", "Charging", "Discharging"}

\* the table after n samples with alternating events were recorded at the
\* times 1..n, the newest with the event `newest`
StoredEvents(n, newest, tz) ==
    {[time |-> t - tz, energy |-> 1, charging |-> (t % 2 = 0), active |-> TRUE,
      event |-> IF t = n THEN newest
                ELSE IF t % 2 = 0 THEN "Charging" ELSE "Discharging"] : t \in 1..n}

InitL ==
    /\ tzOffset \in TzOffsets
    /\ \E n \in LongLogs, newest \in NewestEvents :
          /\ energy_log = StoredEvents(n, newest, tzOffset)
          /\ now = n + 1
    /\ lastDefined = FALSE
    /\ lastTime = 0
    /\ lastEnergy = 0
    /\ lastCharging = FALSE
    /\ lastActive = FALSE
    /\ lastEvent = ""
    /\ timeoutIntervalInSeconds = TimeoutSeconds
    /\ call = NoCall
    /\ entries = NoEntries

\* EventPage.init asks for the events of the last DaysShown days; asked with
\* dayCount = DaysShown * EventLimit the window holds the whole log (the
\* rows lie one tick apart, so DaysShown days hold only the newest few)
ShowEvents ==
    /\ entries.query = "none"
    /\ \E dayCount \in {DaysShown, DaysShown * EventLimit} :
          entries' = Asked("events", dayCount, 0, getLatestEvents(dayCount, now), 0)
    /\ UNCHANGED <<energy_log, cacheVars, timeoutIntervalInSeconds, now, tzOffset, call>>

NextL == ShowEvents

SpecL == InitL /\ [][NextL]_vars

\* ================================================================ claims
\* the instant a stored time stands for
Instant(r) == r.time + tzOffset

\* the row that records the sample of call c at instant t
SampleRow(c, t) == Row(ToSql(t), c.energy, c.charging, c.active, c.event)

\* C1: no two persisted rows share the same time, and no insert or
\* timestamp update is ever attempted at a time an existing row holds.
C1_Uniqueness ==
    /\ \A r \in energy_log : \A q \in energy_log : r.time = q.time => r = q
    /\ ~call.collided

\* C2: a call that inserted its sample, directly followed by a call with
\* the identical sample, no gap and no storage fault: the second call adds
\* no row, returns 0, and the one row recording the sample has moved from
\* the first call's time to the second call's time.
C2_MergeIdempotence ==
    [][(/\ call.op = "record" /\ call.ret = "time"
        /\ call'.op = "record" /\ call'.fault = 0
        /\ call'.energy = call.energy /\ call'.charging = call.charging
        /\ call'.active = call.active /\ call'.event = call.event
        /\ ~(call'.active /\ call'.event # "Start"
             /\ now' - now > timeoutIntervalInSeconds))
       => (/\ call'.ret = "zero"
           /\ SampleRow(call, now) \in energy_log
           /\ energy_log' = (energy_log \ {SampleRow(call, now)})
                                \cup {SampleRow(call', now')}
           /\ {r \in energy_log' : r.time >= ToSql(now)} = {SampleRow(call', now')}
           /\ Cardinality(energy_log') = Cardinality(energy_log))]_vars

C2_Merged ==
    /\ call.op = "record" /\ call.branch = "merge" /\ call.ret = "zero"
    /\ SampleRow(call, now) \in energy_log
    /\ lastTime = now

C4_CacheOnlyOnSuccess ==
    [][(call'.op = "record" /\ (call'.ret = "throw" \/ call'.zero))
       => (/\ UNCHANGED cacheVars
           /\ call'.ret = "throw")]_vars

\* C5: a call is all-or-nothing on the table: a call that fails leaves the
\* table as it was, and no call ends with its back-fill row persisted but
\* the sample's row absent.
C5_Atomic ==
    [][call'.op = "record"
       => (/\ (call'.ret = "throw" => energy_log' = energy_log)
           /\ ~(/\ call'.branch = "gap"
                /\ \E r \in energy_log' \ energy_log : r.time < ToSql(now')
                /\ ~(\E r \in energy_log' : r.time = ToSql(now'))))]_vars

\* C6: the first call after a (re)start whose statement does not fault
\* inserts a new row at now: it is never merged and never back-filled.
C6_RestartResets ==
    [][(call.since = 0 /\ call'.op = "record" /\ call'.fault = 0)
       => (/\ call'.ret = "time"
           /\ call'.branch = "insert"
           /\ SampleRow(call', now') \notin energy_log
           /\ energy_log' = energy_log \cup {SampleRow(call', now')}
           /\ Cardinality(energy_log') = Cardinality(energy_log) + 1)]_vars

C6_FirstAfterRestart ==
    /\ call.op = "record" /\ call.since = 1 /\ call.active /\ call.event # "Start"
    /\ SampleRow(call, now) \in energy_log
    /\ \E r \in energy_log :
          /\ r.time < ToSql(now - timeoutIntervalInSeconds)
          /\ r.energy = call.energy /\ r.charging = call.charging
          /\ r.active = call.active /\ r.event = call.event
          /\ \A q \in energy_log : q.time > r.time => q.time = ToSql(now)

\* the window of the latest query
WindowStart == now - (entries.dayCount + entries.dayOffset) * TicksPerDay
WindowEnd == now - entries.dayOffset * TicksPerDay

\* the case of C7: a row before the window, a row after it, none inside
NothingInside ==
    /\ entries.query = "entries"
    /\ \E r \in energy_log : Instant(r) < WindowStart
    /\ \E r \in energy_log : Instant(r) > WindowEnd
    /\ ~(\E r \in energy_log : Instant(r) > WindowStart /\ Instant(r) < WindowEnd)

\* C7 as stated: with a row before the window, a row after it and no row
\* strictly inside, the result is two synthetic rows, at windowStart and at
\* windowEnd, with energies interpolated between the nearest outside rows.
C7_InterpolatesEmptyWindow ==
    NothingInside =>
        LET before == CHOOSE r \in energy_log :
                        /\ Instant(r) <= WindowStart
                        /\ \A q \in energy_log : Instant(q) <= WindowStart => q.time <= r.time
            after == CHOOSE r \in energy_log :
                        /\ Instant(r) >= WindowEnd
                        /\ \A q \in energy_log : Instant(q) >= WindowEnd => q.time >= r.time
            span == Instant(after) - Instant(before)
        IN
        /\ Len(entries.rows) = 2
        /\ entries.rows[1].time = WindowStart
        /\ entries.rows[2].time = WindowEnd
        /\ entries.rows[1].energy.num * span
             = entries.rows[1].energy.den
               * (before.energy * (Instant(after) - WindowStart)
                  + after.energy * (WindowStart - Instant(before)))
        /\ entries.rows[2].energy.num * span
             = entries.rows[2].energy.den
               * (before.energy * (Instant(after) - WindowEnd)
                  + after.energy * (WindowEnd - Instant(before)))

\* C7 amended: with a row before the window, a row after it and no row
\* strictly inside, the result is empty: no synthetic row is returned.
C7_EmptyWindowStaysEmpty == NothingInside => entries.rows = <<>>

C7_OutsideRowsOnly == NothingInside /\ WindowStart < WindowEnd

\* the rows of the event timeline's window that carry a label to show
Labelled ==
    OrderByTime({r \in energy_log :
                    Instant(r) > WindowStart /\ r.event \notin {"", "Stop"}})

\* C8: the timeline has no two adjacent entries with the same label; it is
\* the rows labelled neither "" nor "Stop", in time order, each run of
\* equal labels represented by its first row.
C8_TimelineDeduplicated ==
    entries.query = "events" =>
        LET firsts == {i \in 1..Len(Labelled) :
                          i = 1 \/ Labelled[i].event # Labelled[i - 1].event}
            out == entries.rows
        IN
        /\ \A i \in 1..(Len(out) - 1) : out[i].event # out[i + 1].event
        /\ Len(out) = Cardinality(firsts)
        /\ \A i \in 1..Len(out) :
              \E k \in firsts :
                 /\ Cardinality({j \in firsts : j <= k}) = i
                 /\ out[i] = [time |-> Instant(Labelled[k]), energy |-> Labelled[k].energy,
                              charging |-> Labelled[k].charging,
                              event |-> Labelled[k].event]

C8_ChargingFullCharging ==
    /\ entries.query = "events"
    /\ [i \in 1..Len(Labelled) |-> Labelled[i].event]
         = <<"Charging", "Charging", "Full", "Charging">>
    /\ [i \in 1..Len(entries.rows) |-> entries.rows[i].event]
         = <<"Charging", "Full", "Charging">>

\* C9: cleanup(maximumDays) at now deletes exactly the rows older than
\* now - maximumDays; a row at exactly that instant and every newer row
\* stay, unchanged.
C9_PruneBoundary ==
    [][call'.op = "cleanup"
       => energy_log' = {r \in energy_log :
                            Instant(r) >= now' - call'.maximumDays * TicksPerDay}]_vars

C9_BoundaryRowKept ==
    /\ call.op = "cleanup"
    /\ \E r \in energy_log : Instant(r) = now - call.maximumDays * TicksPerDay
    /\ call.maximumDays > 0

\* the discharging rows of the power query's window
Discharging ==
    OrderByTime({r \in energy_log : Instant(r) > WindowStart /\ ~r.charging})

\* a consecutive pair of discharging rows that shows a counted strict decrease
CountedDecrease(i) ==
    /\ Discharging[i + 1].energy < Discharging[i].energy
    /\ Discharging[i].event # "Stop"

\* C10: the average power is 0 when the window holds fewer than two
\* charging=false rows, or no consecutive pair of them shows a strict
\* energy decrease that is counted.
C10_ZeroPower ==
    (/\ entries.query = "power"
     /\ \/ Len(Discharging) < 2
        \/ \A i \in 1..(Len(Discharging) - 1) : ~CountedDecrease(i))
    => entries.power = 0

C10_OnlyChargingRows ==
    /\ entries.query = "power"
    /\ entries.power = 0
    /\ Len(Discharging) = 0
    /\ \E r \in energy_log : \E q \in energy_log :
          /\ Instant(r) > WindowStart
          /\ q.time > r.time
          /\ q.energy < r.energy

\* C11: after a call that failed, the next call, made later and with no
\* storage fault of its own, succeeds in recording its sample.
C11_CleanRetry ==
    [][(/\ call.op = "record" /\ call.ret = "throw"
        /\ call'.op = "record" /\ call'.fault = 0)
       => (/\ call'.ret # "throw"
           /\ SampleRow(call', now') \in energy_log')]_vars

\* C12: addOrUpdateEntry (and a restart) deletes no row and changes no
\* value of an existing row; the one change to an existing row is the merge
\* moving the row at the cached lastTime to now.
C12_IngestionFrame ==
    [][call'.op \notin {"cleanup", "reset"}
       => LET old == {r \in energy_log : r.time = ToSql(lastTime)}
          IN
          \/ energy_log \subseteq energy_log'
          \/ /\ call'.op = "record"
             /\ lastDefined
             /\ Cardinality(old) = 1
             /\ energy_log \ energy_log' = old
             /\ energy_log' \ energy_log = {[r EXCEPT !.time = ToSql(now')] : r \in old}]_vars

C12_MergedBesideOthers ==
    /\ call.op = "record" /\ call.branch = "merge" /\ call.ret = "zero" /\ ~call.zero
    /\ SampleRow(call, now) \in energy_log
    /\ \E r \in energy_log :
          r.time < ToSql(now) /\ (r.energy # call.energy \/ r.active # call.active)

\* C18: every call that reports no storage failure leaves the table with a
\* newest row that carries the call's time and sample.
C18_NoSampleLost ==
    [][(call'.op = "record" /\ call'.ret # "throw")
       => (/\ SampleRow(call', now') \in energy_log'
           /\ \A r \in energy_log' : r.time <= ToSql(now'))]_vars

\* the rows strictly inside the window of the latest query, oldest first
Inside ==
    OrderByTime({r \in energy_log : Instant(r) > WindowStart /\ Instant(r) < WindowEnd})

\* a stored row as a query returns it
Real(r) ==
    [time |-> Instant(r), energy |-> [num |-> r.energy, den |-> 1],
     charging |-> r.charging, active |-> r.active, event |-> r.event]

\* the stored row next after r, and the one next before it
LaterRows(r) == {q \in energy_log : q.time > r.time}
EarlierRows(r) == {q \in energy_log : q.time < r.time}
NextRow(r) == CHOOSE q \in LaterRows(r) : \A p \in LaterRows(r) : q.time <= p.time
PreviousRow(r) == CHOOSE q \in EarlierRows(r) : \A p \in EarlierRows(r) : q.time >= p.time

\* C13: with zero or one row strictly inside the window the result is
\* exactly those rows, with no synthetic row at either edge.
C13_FewRowsAsIs ==
    (entries.query = "entries" /\ Len(Inside) < 2)
    => entries.rows = [i \in 1..Len(Inside) |-> Real(Inside[i])]

C13_OneRowBetweenOthers ==
    /\ entries.query = "entries"
    /\ Len(Inside) = 1
    /\ EarlierRows(Inside[1]) # {}
    /\ LaterRows(Inside[1]) # {}
    /\ Len(entries.rows) = 1

\* C14: with two or more rows inside the window, a last one whose event is
\* not "Stop" and a row after it, the result ends with one synthetic row at
\* windowEnd that carries the next row's charging, active and event and the
\* energy last * (1 - s) + next * s, with s in (0, 1] and the energy
\* between the two real ones; otherwise the result ends with the last row.
C14_EndBorder ==
    (entries.query = "entries" /\ Len(Inside) >= 2)
    => LET last == Inside[Len(Inside)]
           next == NextRow(last)
           out == entries.rows
           m == Len(out)
           whole == Instant(next) - Instant(last)
           part == WindowEnd - Instant(last)
       IN
       IF last.event # "Stop" /\ LaterRows(last) # {}
       THEN /\ m >= 3
            /\ out[m - 1] = Real(last)
            /\ out[m].time = WindowEnd
            /\ out[m].charging = next.charging
            /\ out[m].active = next.active
            /\ out[m].event = next.event
            /\ 0 < part /\ part <= whole
            /\ out[m].energy.den > 0
            /\ out[m].energy.num * whole
                 = out[m].energy.den * (last.energy * (whole - part) + next.energy * part)
            /\ \/ /\ last.energy * out[m].energy.den <= out[m].energy.num
                  /\ out[m].energy.num <= next.energy * out[m].energy.den
               \/ /\ next.energy * out[m].energy.den <= out[m].energy.num
                  /\ out[m].energy.num <= last.energy * out[m].energy.den
       ELSE /\ m >= 2
            /\ out[m] = Real(last)

C14_EndRowBlended ==
    /\ entries.query = "entries"
    /\ Len(Inside) >= 2
    /\ Inside[Len(Inside)].event # "Stop"
    /\ LaterRows(Inside[Len(Inside)]) # {}
    /\ Instant(NextRow(Inside[Len(Inside)])) > WindowEnd
    /\ NextRow(Inside[Len(Inside)]).energy # Inside[Len(Inside)].energy
    /\ entries.rows[Len(entries.rows)].time = WindowEnd

\* C15: with two or more rows inside the window and a row before the first
\* of them, the result starts with one synthetic row at windowStart,
\* whatever the first row's event is, "Start" included.
C15_StartBorderAlways ==
    (entries.query = "entries" /\ Len(Inside) >= 2 /\ EarlierRows(Inside[1]) # {})
    => LET first == Inside[1]
           prev == PreviousRow(first)
           out == entries.rows
           whole == Instant(first) - Instant(prev)
           part == Instant(first) - WindowStart
       IN
       /\ Len(out) >= 3
       /\ out[2] = Real(first)
       /\ out[1].time = WindowStart
       /\ out[1].charging = prev.charging
       /\ out[1].active = prev.active
       /\ out[1].event = prev.event
       /\ out[1].energy.den > 0
       /\ out[1].energy.num * whole
            = out[1].energy.den * (first.energy * (whole - part) + prev.energy * part)

C15_StartRowBeforeStart ==
    /\ entries.query = "entries"
    /\ Len(Inside) >= 2
    /\ Inside[1].event = "Start"
    /\ EarlierRows(Inside[1]) # {}
    /\ entries.rows[1].time = WindowStart
    /\ entries.rows[2].event = "Start"

\* C17: the result is strictly ascending in time, lies within
\* [windowStart, windowEnd], and consists of at most one synthetic row at
\* each edge around every row inside the window, each exactly once.
C17_OrderedBounded ==
    entries.query = "entries"
    => LET out == entries.rows
           n == Len(Inside)
       IN
       /\ \A i \in 1..(Len(out) - 1) : out[i].time < out[i + 1].time
       /\ \A i \in 1..Len(out) : WindowStart <= out[i].time /\ out[i].time <= WindowEnd
       /\ \E a \in {0, 1} : \E b \in {0, 1} :
             /\ Len(out) = a + n + b
             /\ \A i \in 1..n : out[a + i] = Real(Inside[i])
             /\ a = 1 => out[1].time = WindowStart
             /\ b = 1 => out[Len(out)].time = WindowEnd

C17_BothEdges ==
    /\ entries.query = "entries"
    /\ Len(Inside) >= 2
    /\ Len(entries.rows) = Len(Inside) + 2
    /\ entries.rows[1].time = WindowStart
    /\ entries.rows[Len(entries.rows)].time = WindowEnd

\* the sum of f over the index set S
RECURSIVE Total(_, _)
Total(f, S) ==
    IF S = {} THEN 0
    ELSE LET i == CHOOSE j \in S : TRUE IN f[i] + Total(f, S \ {i})

\* the consecutive pairs (i, i + 1) of discharging rows that are counted
CountedPairs ==
    {i \in 1..(Len(Discharging) - 1) :
        /\ Discharging[i + 1].energy <= Discharging[i].energy
        /\ Discharging[i].event # "Stop"}

\* C16: sum and duration add up prev.energy - cur.energy and
\* cur.time - prev.time over exactly the consecutive pairs of discharging
\* rows with cur.energy <= prev.energy and prev.event # "Stop"; when
\* sum > 0 the result is round(sum * 3600 / duration).
C16_Accumulation ==
    entries.query = "power"
    => LET drop == [i \in CountedPairs |->
                       Discharging[i].energy - Discharging[i + 1].energy]
           span == [i \in CountedPairs |->
                       Instant(Discharging[i + 1]) - Instant(Discharging[i])]
           sum == Total(drop, CountedPairs)
           duration == Total(span, CountedPairs)
       IN
       /\ entries.sum = sum
       /\ entries.duration = duration
       /\ sum > 0 =>
             /\ 2 * entries.power * duration <= 2 * sum * 3600 + duration
             /\ 2 * sum * 3600 + duration < 2 * (entries.power + 1) * duration

C16_SomePairsSkipped ==
    /\ entries.query = "power"
    /\ entries.power > 0
    /\ CountedPairs # {}
    /\ CountedPairs # 1..(Len(Discharging) - 1)
    /\ \E i \in CountedPairs : Discharging[i + 1].energy = Discharging[i].energy

\* C19: whenever the accumulated sum is positive the accumulated duration
\* is positive, and the result is never negative.
C19_NoDivisionByZero ==
    entries.query = "power"
    => /\ entries.sum > 0 => entries.duration > 0
       /\ entries.power >= 0
       /\ entries.sum >= 0

C19_PositivePower ==
    /\ entries.query = "power"
    /\ entries.sum > 0
    /\ entries.duration > 0
    /\ entries.power > 0

\* C20: the last entry of the event timeline carries the label of the
\* newest row of the window whose event is neither "" nor "Stop".
C20_ReachesPresent ==
    (entries.query = "events" /\ Len(Labelled) > 0)
    => /\ Len(entries.rows) > 0
       /\ entries.rows[Len(entries.rows)].event = Labelled[Len(Labelled)].event

====
